---- MODULE Spec2Model ----
(***************************************************************************)
(* Connection lifecycle and read-only enforcement layer of mongodb-mcp:    *)
(* the MongoDBClient singleton (src/src/mongodb-client.ts, the class that  *)
(* starts at line 206), the driver clients it creates, the health-monitor  *)
(* listeners it attaches, the read-only proxies it hands out, the tool     *)
(* handlers that go through them (src/src/tools) and the server that       *)
(* registers the tools and auto-connects (src/src/config.ts).              *)
(***************************************************************************)
EXTENDS Integers, Sequences, FiniteSets, Bags, TLC

(* ------------------------------ bounds --------------------------------- *)

\* number of MongoClient objects the manager may construct in one behaviour
MaxClients == 2
\* number of manager calls (connect / disconnect) that may be in flight at once
MaxCalls == 2
\* number of close() calls on one client that are pending or have resolved
MaxCloseCalls == 2
\* longest aggregation pipeline a caller passes
MaxPipelineLen == 2
\* number of asynchronous operations (manager calls that have not settled,
\* tool handlers and callbacks waiting to resume) in flight at once
MaxInFlight == 2

(* ----------------------------- vocabulary ------------------------------ *)

\* JavaScript null / undefined of a string-valued field
Null == "null"

\* the value of process.env.MONGODB_MCP_CONNECTION_STRING when it is set
Uri == "mongodb://host"

Clients == 1..MaxClients
Calls == 1..MaxCalls

\* default value of disconnect's reason parameter: the source literal is the
\* Russian word for "regular" (Cyrillic, transliterated here) followed by
\* " disconnect"; it is not the string "normal disconnect"
DefaultDisconnectReason == "shtatnyj disconnect"

\* reasons a caller passes to disconnect(reason)
CallerReasons == {"normal disconnect"}

\* the reason argument left out: disconnect()
Omitted == "undefined"

\* the default-parameter rule of disconnect(reason = ...)
ReasonParam(arg) == IF arg = Omitted THEN DefaultDisconnectReason ELSE arg

NotConnectedMessage == "Not connected to MongoDB. Please connect first."

\* the four driver signals the manager listens to
Signals == {"serverClosed", "serverHeartbeatFailed", "connectionClosed", "error"}

\* message of the Error a generic 'error' event carries, and of a rejected connect()
DriverErrorMessage == "driver error"
ConnectFailureMessage == "connect ECONNREFUSED"

(* --------------------------- program state ----------------------------- *)

VARIABLES
  client,            \* this.client: 0 is null, otherwise the id of a driver client
  isConnected,       \* this.isConnected
  connectionString,  \* this.connectionString
  readonlyMode,      \* this.readonlyMode
  disconnectReason,  \* this.disconnectReason
  connectionError,   \* this.connectionError (its message)
  drv,               \* driver side: state of every MongoClient constructed so far,
                     \*   and its close() calls that are pending or have resolved
  nextId,            \* number of MongoClient objects constructed so far
  calls,             \* in-flight connect / disconnect calls, suspended at an await
  held,              \* the handle the caller received from getDatabase / collection
  pending,           \* bag of the tool handlers suspended at an await whose
                     \*   awaited call is out of the manager's hands: what
                     \*   each will return when it resumes
  ret                \* what the step just taken delivered to its caller

vars == <<client, isConnected, connectionString, readonlyMode, disconnectReason,
          connectionError, drv, nextId, calls, held, pending, ret>>

mgr == <<client, isConnected, connectionString, readonlyMode, disconnectReason,
         connectionError>>

\* who awaits a manager call: a caller outside the model, to whom the outcome
\* is delivered as it is; the connect or the disconnect tool's handler, which
\* turns the outcome into its payload when it resumes (given tells whether
\* the connect tool was passed params.connectionString); or the server's
\* constructor, which does not await the call and attaches a .catch to it
NoTool == [tool |-> "", given |-> FALSE]
StartupCaller == [tool |-> "autoConnect", given |-> FALSE]
ConnectToolCaller(given) == [tool |-> "connectTool", given |-> given]
DisconnectToolCaller == [tool |-> "disconnectTool", given |-> FALSE]

IdleCall == [pc |-> "idle", cli |-> 0, ro |-> FALSE, reason |-> Null, by |-> NoTool]

\* a database or collection handle: ro tells whether it is a read-only proxy
NoHandle == [level |-> "none", ro |-> FALSE]

NoDriverCall ==
  [method |-> "", level |-> "", receiver |-> "", pipeline |-> <<>>, options |-> ""]

\* the response object a tool hands to toolSuccess: the keys the connect and
\* disconnect tools fill in
NoPayload == [success |-> FALSE, message |-> "", isConnected |-> FALSE,
              disconnectReason |-> Null]

\* nothing delivered: the step was not a call, or the call is still suspended
\*   op, recv, prop, pipeline, options: the call and its arguments
\*   outcome: "returned" / "threw" (tools: "toolSuccess" / "toolError")
\*   err, name: the error thrown and the operation or stage it names
\*   result, handle: the value returned; driver: the driver method invoked
\*   payload: the response object of a toolSuccess
NoRet == [op |-> "", recv |-> NoHandle, prop |-> "", pipeline |-> <<>>,
          options |-> "", outcome |-> "", err |-> "", name |-> "",
          result |-> "", handle |-> NoHandle, driver |-> NoDriverCall,
          payload |-> NoPayload]

\* listeners: the signals for which a client.on(...) handler is attached
AbsentClient == [st |-> "absent", closeCalls |-> 0, listeners |-> {}]

\* mutant of IssuedClient: connect() is issued before the listeners are attached
IssuedClientWithoutListeners == [st |-> "connecting", closeCalls |-> 0, listeners |-> {}]

\* a driver client at the moment connect() is issued on it: new MongoClient,
\* then the four client.on(...) calls, then client.connect()
IssuedClient == [st |-> "connecting", closeCalls |-> 0, listeners |-> Signals]

Init ==
  /\ client = 0
  /\ isConnected = FALSE
  /\ connectionString = Null
  /\ readonlyMode = FALSE
  /\ disconnectReason = Null
  /\ connectionError = Null
  /\ drv = [c \in Clients |-> AbsentClient]
  /\ nextId = 0
  /\ calls = [k \in Calls |-> IdleCall]
  /\ held = NoHandle
  /\ pending = EmptyBag
  /\ ret = NoRet

(* ------------------------- connection manager -------------------------- *)

\* the asynchronous operations in flight: the manager calls that have not
\* settled, and the tool handlers and callbacks that wait to resume
ActiveCalls == {j \in Calls : calls[j].pc # "idle"}
InFlight == Cardinality(ActiveCalls) + BagCardinality(pending)

\* call frames are interchangeable: a new call takes the lowest free one
FreeCall(k) ==
  /\ InFlight < MaxInFlight
  /\ calls[k].pc = "idle"
  /\ \A j \in Calls : j < k => calls[j].pc # "idle"

setReadonlyMode(ro) ==
  /\ readonlyMode' = ro
  /\ ret' = NoRet
  /\ UNCHANGED <<client, isConnected, connectionString, disconnectReason,
                 connectionError, drv, nextId, calls, held, pending>>

\* disconnect() up to its await: close() is issued on this.client
IssueClose(by, k, nextPc, ro, reason) ==
  /\ drv[client].closeCalls < MaxCloseCalls
  /\ drv' = [drv EXCEPT ![client].closeCalls = @ + 1]
  /\ calls' = [calls EXCEPT ![k] = [pc |-> nextPc, cli |-> client, ro |-> ro,
                                    reason |-> reason, by |-> by]]

\* connect calls that have left their implicit disconnect and will construct
\* a driver client when they resume
Resuming == {j \in Calls : calls[j].pc = "conn_resume"}

\* connect()'s try block up to its await: new MongoClient, the four
\* client.on(...) listeners, then client.connect() is issued
CreateAndIssueConnect(by, k, ro) ==
  /\ nextId + Cardinality(Resuming) < MaxClients
  /\ nextId' = nextId + 1
  /\ client' = nextId + 1
  /\ drv' = [drv EXCEPT ![nextId + 1] = IssuedClient]
  /\ calls' = [calls EXCEPT ![k] = [pc |-> "conn_wait", cli |-> nextId + 1,
                                    ro |-> ro, reason |-> Null, by |-> by]]

\* the response object a tool hands to toolSuccess, and the two payloads
ToolError(op, err) == [NoRet EXCEPT !.op = op, !.outcome = "toolError", !.err = err]

ToolSuccess(op, message, connected, reason) ==
  [NoRet EXCEPT !.op = op, !.outcome = "toolSuccess",
                !.payload = [success |-> TRUE, message |-> message,
                             isConnected |-> connected, disconnectReason |-> reason]]

ConnectedUsingEnvMessage ==
  "Connected to MongoDB successfully using MONGODB_CONNECTION_STRING environment variable"

\* what the connect or disconnect tool returns once the manager call it
\* awaits has settled with outcome r: its success response, whose fields
\* do not depend on the connection state, or the toolError of its catch block
ToolPayload(by, r) ==
  IF r.outcome = "threw" THEN ToolError(by.tool, r.err)
  ELSE IF by.tool = "connectTool"
  THEN ToolSuccess(by.tool,
                   IF by.given THEN "Connected to MongoDB successfully"
                   ELSE ConnectedUsingEnvMessage,
                   TRUE, Null)
  ELSE [ToolSuccess(by.tool, "Disconnected from MongoDB successfully", FALSE,
                    "normal disconnect") EXCEPT !.driver = r.driver]

\* what the constructor's .catch callback logs when the connect it issued
\* has rejected
StartupLog(err) == [NoRet EXCEPT !.op = "autoConnect", !.outcome = "logged", !.err = err]

\* a manager call made by `by` settles with outcome r: a caller outside the
\* model receives r; a tool handler is resumed later, in a step of its own;
\* the constructor's .catch callback runs later when the call has rejected,
\* and nothing follows when it has resolved
DeliverTo(by, r) ==
  IF by = NoTool
  THEN /\ ret' = r
       /\ UNCHANGED pending
  ELSE IF by = StartupCaller
  THEN /\ ret' = NoRet
       /\ pending' = IF r.outcome = "threw"
                     THEN pending (+) SetToBag({StartupLog(r.err)})
                     ELSE pending
  ELSE /\ ret' = NoRet
       /\ pending' = pending (+) SetToBag({ToolPayload(by, r)})

\* the manager call of frame k settles with outcome r
Deliver(k, r) == DeliverTo(calls[k].by, r)

\* the default-parameter rule of connect(readonlyMode = true): given tells
\* whether the caller wrote the argument
ReadonlyModeParam(given, arg) == IF given THEN arg ELSE TRUE

\* mutant of connect: the implicit disconnect comes before the test of the
\* connection string
connectClosesBeforeCheck(k, env, ro) ==
  /\ FreeCall(k)
  /\ IF isConnected /\ client # 0
     THEN /\ IssueClose(NoTool, k, "conn_close", ro, ReasonParam(Omitted))
          /\ ret' = NoRet
          /\ UNCHANGED <<mgr, nextId, held, pending>>
     ELSE IF env = Null
     THEN /\ ret' = [NoRet EXCEPT !.op = "connect", !.outcome = "threw",
                                  !.err = "ConfigurationError"]
          /\ UNCHANGED <<mgr, drv, nextId, calls, held, pending>>
     ELSE /\ CreateAndIssueConnect(NoTool, k, ro)
          /\ ret' = NoRet
          /\ UNCHANGED <<isConnected, connectionString, readonlyMode,
                         disconnectReason, connectionError, held, pending>>

\* connect(readonlyMode) from its entry to its first await (or its throw),
\* called by `by`
connectFrom(by, k, env, ro) ==
  /\ FreeCall(k)
  /\ IF env = Null
     THEN /\ DeliverTo(by, [NoRet EXCEPT !.op = "connect", !.outcome = "threw",
                                         !.err = "ConfigurationError"])
          /\ UNCHANGED <<mgr, drv, nextId, calls, held>>
     ELSE IF isConnected /\ client # 0
     THEN /\ IssueClose(by, k, "conn_close", ro, ReasonParam(Omitted))
          /\ ret' = NoRet
          /\ UNCHANGED <<mgr, nextId, held, pending>>
     ELSE /\ CreateAndIssueConnect(by, k, ro)
          /\ ret' = NoRet
          /\ UNCHANGED <<isConnected, connectionString, readonlyMode,
                         disconnectReason, connectionError, held, pending>>

\* connect(readonlyMode) called by a caller outside the model
connect(k, env, ro) == connectFrom(NoTool, k, env, ro)

\* mutant of DisconnectAssignments: a recorded fault survives the disconnect
DisconnectAssignmentsKeepFault(reason) ==
  /\ isConnected' = FALSE
  /\ client' = 0
  /\ connectionString' = Null
  /\ disconnectReason' = reason
  /\ connectionError' = connectionError

\* the assignments of disconnect() after close() has resolved
DisconnectAssignments(reason) ==
  /\ isConnected' = FALSE
  /\ client' = 0
  /\ connectionString' = Null
  /\ disconnectReason' = reason
  /\ connectionError' = Null

\* the close() awaited by connect's implicit disconnect resolves: disconnect
\* resumes and makes its assignments; connect is still suspended at
\* `await this.disconnect()`
connectCloseResolved(k) ==
  /\ calls[k].pc = "conn_close"
  /\ nextId + Cardinality(Resuming) < MaxClients
  /\ DisconnectAssignments(calls[k].reason)
  /\ drv' = [drv EXCEPT ![calls[k].cli].st = "closed"]
  /\ calls' = [calls EXCEPT ![k].pc = "conn_resume"]
  /\ ret' = NoRet
  /\ UNCHANGED <<readonlyMode, nextId, held, pending>>

\* connect resumes after its implicit disconnect has returned and runs its
\* try block up to the await: new MongoClient, the listeners, client.connect()
connectDisconnected(k) ==
  /\ calls[k].pc = "conn_resume"
  /\ nextId < MaxClients
  /\ nextId' = nextId + 1
  /\ client' = nextId + 1
  /\ drv' = [drv EXCEPT ![nextId + 1] = IssuedClient]
  /\ calls' = [calls EXCEPT ![k] = [pc |-> "conn_wait", cli |-> nextId + 1,
                                    ro |-> calls[k].ro,
                                    reason |-> calls[k].reason,
                                    by |-> calls[k].by]]
  /\ ret' = NoRet
  /\ UNCHANGED <<isConnected, connectionString, readonlyMode, disconnectReason,
                 connectionError, held, pending>>

\* mutant of connectCloseRejected: the implicit disconnect is inside the try
\* block, so the catch records the error and wraps it
connectCloseRejectedInsideTry(k) ==
  /\ calls[k].pc = "conn_close"
  /\ drv' = [drv EXCEPT ![calls[k].cli].closeCalls = @ - 1]
  /\ connectionError' = ConnectFailureMessage
  /\ calls' = [calls EXCEPT ![k] = IdleCall]
  /\ Deliver(k, [NoRet EXCEPT !.op = "connect", !.outcome = "threw", !.err = "ConnectionError"])
  /\ UNCHANGED <<client, isConnected, connectionString, readonlyMode,
                 disconnectReason, nextId, held>>

\* the close() awaited by connect's implicit disconnect rejects: the error
\* leaves disconnect and connect (the call is outside the try block)
connectCloseRejected(k) ==
  /\ calls[k].pc = "conn_close"
  /\ drv' = [drv EXCEPT ![calls[k].cli].closeCalls = @ - 1]
  /\ calls' = [calls EXCEPT ![k] = IdleCall]
  /\ Deliver(k, [NoRet EXCEPT !.op = "connect", !.outcome = "threw", !.err = "CloseError"])
  /\ UNCHANGED <<mgr, nextId, held>>

\* mutant of connectResolved: a recorded fault and reason survive the connect
connectResolvedKeepsFault(k) ==
  /\ calls[k].pc = "conn_wait"
  /\ drv' = [drv EXCEPT ![calls[k].cli].st = IF @ = "closed" THEN @ ELSE "connected"]
  /\ connectionString' = Uri
  /\ isConnected' = TRUE
  /\ readonlyMode' = calls[k].ro
  /\ calls' = [calls EXCEPT ![k] = IdleCall]
  /\ Deliver(k, [NoRet EXCEPT !.op = "connect", !.outcome = "returned"])
  /\ UNCHANGED <<client, disconnectReason, connectionError, nextId, held>>

\* mutant of connectResolved: the call returns without setting isConnected
connectResolvedStaysDisconnected(k) ==
  /\ calls[k].pc = "conn_wait"
  /\ drv' = [drv EXCEPT ![calls[k].cli].st = IF @ = "closed" THEN @ ELSE "connected"]
  /\ connectionString' = Uri
  /\ disconnectReason' = Null
  /\ connectionError' = Null
  /\ readonlyMode' = calls[k].ro
  /\ calls' = [calls EXCEPT ![k] = IdleCall]
  /\ Deliver(k, [NoRet EXCEPT !.op = "connect", !.outcome = "returned"])
  /\ UNCHANGED <<client, isConnected, nextId, held>>

\* `await this.client.connect()` resolves
connectResolved(k) ==
  /\ calls[k].pc = "conn_wait"
  /\ drv' = [drv EXCEPT ![calls[k].cli].st = IF @ = "closed" THEN @ ELSE "connected"]
  /\ connectionString' = Uri
  /\ isConnected' = TRUE
  /\ disconnectReason' = Null
  /\ connectionError' = Null
  /\ readonlyMode' = calls[k].ro
  /\ calls' = [calls EXCEPT ![k] = IdleCall]
  /\ Deliver(k, [NoRet EXCEPT !.op = "connect", !.outcome = "returned"])
  /\ UNCHANGED <<client, nextId, held>>

\* `await this.client.connect()` rejects
connectRejected(k) ==
  /\ calls[k].pc = "conn_wait"
  /\ drv' = [drv EXCEPT ![calls[k].cli].st = IF @ = "closed" THEN @ ELSE "failed"]
  /\ connectionError' = ConnectFailureMessage
  /\ calls' = [calls EXCEPT ![k] = IdleCall]
  /\ Deliver(k, [NoRet EXCEPT !.op = "connect", !.outcome = "threw", !.err = "ConnectionError"])
  /\ UNCHANGED <<client, isConnected, connectionString, readonlyMode,
                 disconnectReason, nextId, held>>

\* disconnect(reason) from its entry to its await (or its return), called by
\* `by`; arg is the argument as the caller wrote it
disconnectFrom(by, k, arg) ==
  /\ FreeCall(k)
  /\ IF client # 0
     THEN /\ IssueClose(by, k, "disc_close", FALSE, ReasonParam(arg))
          /\ ret' = NoRet
          /\ UNCHANGED pending
     ELSE /\ DeliverTo(by, [NoRet EXCEPT !.op = "disconnect", !.outcome = "returned"])
          /\ UNCHANGED <<drv, calls>>
  /\ UNCHANGED <<mgr, nextId, held>>

\* disconnect(reason) called by a caller outside the model
disconnect(k, arg) == disconnectFrom(NoTool, k, arg)

\* the driver call a completed disconnect made
CloseCall == [NoDriverCall EXCEPT !.method = "close", !.level = "client"]

\* mutant of disconnectCloseResolved: this.client is not reset to null
disconnectCloseResolvedKeepsClient(k) ==
  /\ calls[k].pc = "disc_close"
  /\ isConnected' = FALSE
  /\ connectionString' = Null
  /\ disconnectReason' = calls[k].reason
  /\ connectionError' = Null
  /\ drv' = [drv EXCEPT ![calls[k].cli].st = "closed"]
  /\ calls' = [calls EXCEPT ![k] = IdleCall]
  /\ Deliver(k, [NoRet EXCEPT !.op = "disconnect", !.outcome = "returned", !.driver = CloseCall])
  /\ UNCHANGED <<client, readonlyMode, nextId, held>>

\* the close() awaited by disconnect resolves
disconnectCloseResolved(k) ==
  /\ calls[k].pc = "disc_close"
  /\ DisconnectAssignments(calls[k].reason)
  /\ drv' = [drv EXCEPT ![calls[k].cli].st = "closed"]
  /\ calls' = [calls EXCEPT ![k] = IdleCall]
  /\ Deliver(k, [NoRet EXCEPT !.op = "disconnect", !.outcome = "returned", !.driver = CloseCall])
  /\ UNCHANGED <<readonlyMode, nextId, held>>

\* the close() awaited by disconnect rejects
disconnectCloseRejected(k) ==
  /\ calls[k].pc = "disc_close"
  /\ drv' = [drv EXCEPT ![calls[k].cli].closeCalls = @ - 1]
  /\ calls' = [calls EXCEPT ![k] = IdleCall]
  /\ Deliver(k, [NoRet EXCEPT !.op = "disconnect", !.outcome = "threw", !.err = "CloseError"])
  /\ UNCHANGED <<mgr, nextId, held>>

(* --------------------------- health monitor ---------------------------- *)

SignalLabel(sig) ==
  CASE sig = "serverClosed" -> "server closed connection"
    [] sig = "serverHeartbeatFailed" -> "heartbeat failed"
    [] sig = "connectionClosed" -> "connection closed"
    [] sig = "error" -> "connection error"

SignalFault(sig) ==
  CASE sig = "serverClosed" -> "MongoDB server closed connection"
    [] sig = "serverHeartbeatFailed" -> "MongoDB heartbeat failed - connection lost"
    [] sig = "connectionClosed" -> "MongoDB connection closed"
    [] sig = "error" -> DriverErrorMessage

\* mutant of onSignal: the heartbeat handler flips the phase like the others
onSignalHeartbeatFlips(c, sig) ==
  /\ sig \in drv[c].listeners
  /\ drv[c].st # "closed"
  /\ IF isConnected
     THEN /\ isConnected' = FALSE
          /\ connectionError' = SignalFault(sig)
          /\ disconnectReason' = SignalLabel(sig)
     ELSE UNCHANGED <<isConnected, connectionError, disconnectReason>>
  /\ ret' = NoRet
  /\ UNCHANGED <<client, connectionString, readonlyMode, drv, nextId, calls, held, pending>>

\* mutant of onSignal: the handlers do not test this.isConnected
onSignalUnguarded(c, sig) ==
  /\ sig \in drv[c].listeners
  /\ drv[c].st # "closed"
  /\ isConnected' = (isConnected /\ sig = "serverHeartbeatFailed")
  /\ connectionError' = SignalFault(sig)
  /\ disconnectReason' = SignalLabel(sig)
  /\ ret' = NoRet
  /\ UNCHANGED <<client, connectionString, readonlyMode, drv, nextId, calls, held, pending>>

\* a driver client emits one of the four signals and the listener attached
\* for it runs
onSignal(c, sig) ==
  /\ sig \in drv[c].listeners
  /\ drv[c].st # "closed"
  /\ IF isConnected
     THEN /\ isConnected' = (sig = "serverHeartbeatFailed")
          /\ connectionError' = SignalFault(sig)
          /\ disconnectReason' = SignalLabel(sig)
     ELSE UNCHANGED <<isConnected, connectionError, disconnectReason>>
  /\ ret' = NoRet
  /\ UNCHANGED <<client, connectionString, readonlyMode, drv, nextId, calls, held, pending>>

(* ------------------------------- getters ------------------------------ *)

\* mutant of getClient: the liveness test inside the try block can fail, so
\* the catch block runs and flips the phase
getClientCatchLive ==
  /\ IF ~(isConnected /\ client # 0)
     THEN /\ connectionError' =
               IF connectionError = Null THEN NotConnectedMessage ELSE connectionError
          /\ ret' = [NoRet EXCEPT !.op = "getClient", !.outcome = "threw",
                                  !.err = NotConnectedMessage]
          /\ UNCHANGED <<isConnected, disconnectReason>>
     ELSE /\ isConnected' = FALSE
          /\ connectionError' = DriverErrorMessage
          /\ disconnectReason' = "connection error during operation"
          /\ ret' = [NoRet EXCEPT !.op = "getClient", !.outcome = "threw",
                                  !.err = DriverErrorMessage]
  /\ UNCHANGED <<client, connectionString, readonlyMode, drv, nextId, calls, held, pending>>

getClient ==
  /\ IF ~(isConnected /\ client # 0)
     THEN /\ connectionError' =
               IF connectionError = Null THEN NotConnectedMessage ELSE connectionError
          /\ ret' = [NoRet EXCEPT !.op = "getClient", !.outcome = "threw",
                                  !.err = NotConnectedMessage]
     ELSE /\ ret' = [NoRet EXCEPT !.op = "getClient", !.outcome = "returned",
                                  !.result = "client"]
          /\ UNCHANGED connectionError
  /\ UNCHANGED <<client, isConnected, connectionString, readonlyMode,
                 disconnectReason, drv, nextId, calls, held, pending>>

\* mutant of getDatabase: the handle is wrapped whatever readonlyMode is
getDatabaseAlwaysProxy ==
  /\ IF ~(isConnected /\ client # 0)
     THEN /\ connectionError' =
               IF connectionError = Null THEN NotConnectedMessage ELSE connectionError
          /\ ret' = [NoRet EXCEPT !.op = "getDatabase", !.outcome = "threw",
                                  !.err = NotConnectedMessage]
     ELSE /\ ret' = [NoRet EXCEPT !.op = "getDatabase", !.outcome = "returned",
                                  !.result = "handle",
                                  !.handle = [level |-> "db", ro |-> TRUE]]
          /\ UNCHANGED connectionError
  /\ UNCHANGED <<client, isConnected, connectionString, readonlyMode,
                 disconnectReason, drv, nextId, calls, held, pending>>

\* mutant of getDatabase: plain assignment instead of ??=, a recorded fault
\* is overwritten by the generic one
getDatabaseOverwritesFault ==
  /\ IF ~(isConnected /\ client # 0)
     THEN /\ connectionError' = NotConnectedMessage
          /\ ret' = [NoRet EXCEPT !.op = "getDatabase", !.outcome = "threw",
                                  !.err = NotConnectedMessage]
     ELSE /\ ret' = [NoRet EXCEPT !.op = "getDatabase", !.outcome = "returned",
                                  !.result = "handle",
                                  !.handle = [level |-> "db", ro |-> readonlyMode]]
          /\ UNCHANGED connectionError
  /\ UNCHANGED <<client, isConnected, connectionString, readonlyMode,
                 disconnectReason, drv, nextId, calls, held, pending>>

getDatabase ==
  /\ IF ~(isConnected /\ client # 0)
     THEN /\ connectionError' =
               IF connectionError = Null THEN NotConnectedMessage ELSE connectionError
          /\ ret' = [NoRet EXCEPT !.op = "getDatabase", !.outcome = "threw",
                                  !.err = NotConnectedMessage]
     ELSE /\ ret' = [NoRet EXCEPT !.op = "getDatabase", !.outcome = "returned",
                                  !.result = "handle",
                                  !.handle = [level |-> "db", ro |-> readonlyMode]]
          /\ UNCHANGED connectionError
  /\ UNCHANGED <<client, isConnected, connectionString, readonlyMode,
                 disconnectReason, drv, nextId, calls, held, pending>>

\* mutant of getConnectionInfo: the reason is reported whatever the phase is
getConnectionInfoReasonAlways ==
  [isConnected |-> isConnected,
   disconnectReason |-> disconnectReason,
   connectionError |-> connectionError]

\* the snapshot getConnectionInfo() builds; an absent key is Null
getConnectionInfo ==
  [isConnected |-> isConnected,
   disconnectReason |->
     IF ~isConnected /\ disconnectReason # Null THEN disconnectReason ELSE Null,
   connectionError |-> connectionError]

(* ------------------------- driver object shape ------------------------- *)

\* collection-level methods that change documents, indexes or the collection
CollectionWriteMethods ==
  {"insertOne", "insertMany", "updateOne", "updateMany", "deleteOne",
   "deleteMany", "findOneAndReplace", "findOneAndUpdate", "findOneAndDelete",
   "bulkWrite", "createIndex", "dropIndex", "drop"}

\* mutant of writeOperations: bulkWrite is missing from the blocklist
writeOperationsWithoutBulkWrite ==
  {"addUser", "removeUser", "createCollection", "createIndex", "dropCollection",
   "dropIndex", "dropDatabase", "renameCollection", "updateOne", "updateMany",
   "replaceOne", "deleteOne", "deleteMany", "insertOne", "insertMany",
   "findOneAndReplace", "findOneAndUpdate", "findOneAndDelete"}

\* the blocklist of createReadonlyDatabaseProxy
writeOperations ==
  {"addUser", "removeUser", "createCollection", "createIndex", "dropCollection",
   "dropIndex", "dropDatabase", "renameCollection", "updateOne", "updateMany",
   "replaceOne", "deleteOne", "deleteMany", "insertOne", "insertMany",
   "findOneAndReplace", "findOneAndUpdate", "findOneAndDelete", "bulkWrite"}

\* the methods of the driver's Db object that the program calls on the handle
\* getDatabase gives it: db.collection, db.aggregate, db.admin,
\* db.listCollections, db.stats, and the blocklisted db.createCollection and
\* db.dropCollection
DbFunctions ==
  {"collection", "aggregate", "admin", "listCollections", "stats",
   "createCollection", "dropCollection"}

\* the methods of the Collection object
CollectionFunctions ==
  {"aggregate", "find", "findOne", "countDocuments"} \cup CollectionWriteMethods

\* the member of the Collection object the program reads that is not a
\* function: collection.collectionName
CollectionValues == {"collectionName"}

\* property names a caller reads from a handle: the members of the two
\* objects, the names of the blocklist, and "nosuch", which is on neither
PropNames ==
  DbFunctions \cup CollectionFunctions \cup CollectionValues
    \cup writeOperations \cup {"nosuch"}

\* typeof target[prop]
TypeOf(level, prop) ==
  IF level = "db"
  THEN IF prop \in DbFunctions THEN "function" ELSE "undefined"
  ELSE IF prop \in CollectionFunctions THEN "function"
       ELSE IF prop \in CollectionValues THEN "string"
       ELSE "undefined"

(* -------------------------- aggregation gate --------------------------- *)

\* mutant of dangerousStages: $merge is not treated as dangerous
dangerousStagesOutOnly == {"$out"}

dangerousStages == {"$out", "$merge"}

\* a stage object: its own keys in Object.keys order, and the names of the
\* stages of a sub-pipeline nested in its value
Stage(keys, nested) == [keys |-> keys, nested |-> nested]

StageShapes ==
  {Stage(<<"$match">>, <<>>), Stage(<<"$out">>, <<>>), Stage(<<"$merge">>, <<>>),
   Stage(<<>>, <<>>), Stage(<<"$match", "$out">>, <<>>),
   Stage(<<"$lookup">>, <<"$out">>)}

Pipelines == UNION {[1..n -> StageShapes] : n \in 0..MaxPipelineLen}

OptionValues == {"undefined", "options"}

\* mutant of stageName: the scan descends into a nested sub-pipeline
stageNameDeep(stage) ==
  IF Len(stage.nested) > 0 THEN stage.nested[1]
  ELSE IF Len(stage.keys) = 0 THEN "" ELSE stage.keys[1]

\* mutant of stageName: the last key of the stage object instead of the first
stageNameLast(stage) ==
  IF Len(stage.keys) = 0 THEN "" ELSE stage.keys[Len(stage.keys)]

\* Object.keys(stage)[0]; "" stands for undefined
stageName(stage) == IF Len(stage.keys) = 0 THEN "" ELSE stage.keys[1]

\* the for loop of the aggregate wrappers: the stage name it throws for, or
\* "" when the loop ends without throwing
RECURSIVE ScanPipeline(_)
ScanPipeline(pipeline) ==
  IF pipeline = <<>> THEN ""
  ELSE IF stageName(Head(pipeline)) # "" /\ stageName(Head(pipeline)) \in dangerousStages
       THEN stageName(Head(pipeline))
       ELSE ScanPipeline(Tail(pipeline))

(* ------------------------- read-only interceptor ----------------------- *)

\* mutant of createReadonlyDatabaseProxy: a function member that is neither
\* collection nor aggregate is returned as it is, not bound to the target
createReadonlyDatabaseProxyUnbound(prop) ==
  IF prop \in writeOperations THEN "thrower"
  ELSE IF TypeOf("db", prop) = "function"
       THEN IF prop = "collection" THEN "collectionWrapper"
            ELSE IF prop = "aggregate" THEN "aggregateWrapper"
            ELSE "unbound"
       ELSE "value"

\* the get trap of the database proxy: what reading `prop` yields
createReadonlyDatabaseProxy(prop) ==
  IF prop \in writeOperations THEN "thrower"
  ELSE IF TypeOf("db", prop) = "function"
       THEN IF prop = "collection" THEN "collectionWrapper"
            ELSE IF prop = "aggregate" THEN "aggregateWrapper"
            ELSE "bound"
       ELSE "value"

\* the get trap of the collection proxy
createReadonlyCollectionProxy(prop) ==
  IF TypeOf("coll", prop) = "function"
  THEN IF prop = "aggregate" THEN "aggregateWrapper" ELSE "bound"
  ELSE "value"

\* reading `prop` from a handle: a raw handle is the driver object itself,
\* whose function members are read as they are, bound to nothing
HandleGet(h, prop) ==
  IF h.ro
  THEN IF h.level = "db" THEN createReadonlyDatabaseProxy(prop)
       ELSE createReadonlyCollectionProxy(prop)
  ELSE IF TypeOf(h.level, prop) = "function" THEN "unbound" ELSE "value"

\* h[prop](pipeline, options): what the call delivers and what reaches the
\* driver.  A wrapper or a bound member runs the method with this = target; a
\* member read as it is runs with this = h, which is the target only when h
\* is a raw handle
HandleInvoke(h, prop, pipeline, options) ==
  LET member == HandleGet(h, prop)
      base == [NoRet EXCEPT !.recv = h, !.prop = prop, !.pipeline = pipeline,
                            !.options = options]
      forwarded == [method |-> prop, level |-> h.level,
                    receiver |-> IF member = "unbound" /\ h.ro THEN "proxy"
                                                               ELSE "target",
                    pipeline |-> pipeline, options |-> options]
  IN CASE member = "thrower" ->
            [base EXCEPT !.outcome = "threw", !.err = "OperationNotAllowed",
                         !.name = prop]
       [] member = "collectionWrapper" ->
            [base EXCEPT !.outcome = "returned", !.result = "handle",
                         !.handle = [level |-> "coll", ro |-> TRUE],
                         !.driver = forwarded]
       [] member = "aggregateWrapper" ->
            IF ScanPipeline(pipeline) # ""
            THEN [base EXCEPT !.outcome = "threw", !.err = "StageNotAllowed",
                              !.name = ScanPipeline(pipeline)]
            ELSE [base EXCEPT !.outcome = "returned", !.result = "driverResult",
                              !.driver = forwarded]
       [] member \in {"bound", "unbound"} ->
            IF prop = "collection"
            THEN [base EXCEPT !.outcome = "returned", !.result = "handle",
                              !.handle = [level |-> "coll", ro |-> FALSE],
                              !.driver = forwarded]
            ELSE [base EXCEPT !.outcome = "returned", !.result = "driverResult",
                              !.driver = forwarded]
       [] OTHER ->
            [base EXCEPT !.outcome = "threw", !.err = "TypeError"]

\* the caller stores the handle it was just given
keepHandle ==
  /\ ret.handle # NoHandle
  /\ held' = ret.handle
  /\ ret' = NoRet
  /\ UNCHANGED <<mgr, drv, nextId, calls, pending>>

\* what reading h[prop] delivers: the get trap (or the plain property read of
\* a raw handle) runs and returns
GetResult(h, prop) ==
  [NoRet EXCEPT !.op = "get", !.recv = h, !.prop = prop,
                !.outcome = "returned", !.result = HandleGet(h, prop)]

\* what calling h[prop]() delivers
CallResult(h, prop) ==
  [HandleInvoke(h, prop, <<>>, "undefined") EXCEPT !.op = "call"]

\* what calling h.aggregate(pipeline, options) delivers
AggregateResult(h, pipeline, options) ==
  [HandleInvoke(h, "aggregate", pipeline, options) EXCEPT !.op = "aggregate"]

\* the caller reads a member of the handle it holds without calling it
handleGet(prop) ==
  /\ held # NoHandle
  /\ ret' = GetResult(held, prop)
  /\ UNCHANGED <<mgr, drv, nextId, calls, held, pending>>

\* the caller calls a member other than aggregate on the handle it holds
handleCall(prop) ==
  /\ held # NoHandle
  /\ prop # "aggregate"
  /\ ret' = CallResult(held, prop)
  /\ UNCHANGED <<mgr, drv, nextId, calls, held, pending>>

\* the caller calls aggregate(pipeline, options) on the handle it holds
handleAggregate(pipeline, options) ==
  /\ held # NoHandle
  /\ ret' = AggregateResult(held, pipeline, options)
  /\ UNCHANGED <<mgr, drv, nextId, calls, held, pending>>

(* ------------------------------ write tools ---------------------------- *)

\* a handler that has issued its driver call and is suspended at the await:
\* r is what it has done so far
Awaits(r) == [r EXCEPT !.outcome = "awaiting"]

\* what a handler has to return after a call on its collection handle
\* delivered h: the handle itself never leaves the handler
ToolResult(tool, h) ==
  [NoRet EXCEPT !.op = tool, !.outcome = h.outcome, !.err = h.err,
                !.name = h.name, !.result = h.result, !.driver = h.driver]

\* the shared body of the insert, update and delete handlers up to the await
\* (or the return): the connection check, getDatabase, db.collection(name),
\* then one collection method, whose promise the handler awaits
WriteTool(tool, method) ==
  IF ~isConnected
  THEN /\ ret' = [NoRet EXCEPT !.op = tool, !.outcome = "toolError",
                               !.err = NotConnectedMessage]
       /\ UNCHANGED <<mgr, drv, nextId, calls, held, pending>>
  ELSE IF client = 0
  THEN /\ connectionError' =
            IF connectionError = Null THEN NotConnectedMessage ELSE connectionError
       /\ ret' = [NoRet EXCEPT !.op = tool, !.outcome = "toolError",
                               !.err = NotConnectedMessage]
       /\ UNCHANGED <<client, isConnected, connectionString, readonlyMode,
                      disconnectReason, drv, nextId, calls, held, pending>>
  ELSE LET db == [level |-> "db", ro |-> readonlyMode]
           coll == HandleInvoke(db, "collection", <<>>, "undefined").handle
           r == ToolResult(tool, HandleInvoke(coll, method, <<>>, "undefined"))
       IN /\ IF r.outcome = "threw"
             THEN /\ ret' = [r EXCEPT !.outcome = "toolError"]
                  /\ UNCHANGED pending
             ELSE /\ InFlight < MaxInFlight
                  /\ ret' = NoRet
                  /\ pending' = pending (+) SetToBag({Awaits(r)})
          /\ UNCHANGED <<mgr, drv, nextId, calls, held>>

\* insert: documents non-empty selects insertMany, otherwise insertOne
registerInsertTool(many) ==
  WriteTool("insert", IF many THEN "insertMany" ELSE "insertOne")

\* update: multi selects updateMany, otherwise updateOne
registerUpdateTool(multi) ==
  WriteTool("update", IF multi THEN "updateMany" ELSE "updateOne")

\* delete: multi selects deleteMany, otherwise deleteOne
registerDeleteTool(multi) ==
  WriteTool("delete", IF multi THEN "deleteMany" ELSE "deleteOne")

\* the driver promise a suspended handler awaits settles and the handler
\* resumes: it returns toolSuccess when the promise resolved (driverOk), and
\* its catch block returns toolError when it rejected; the connection is not
\* looked at again.  The handlers in flight resume in any order
handlerResumed(driverOk) ==
  \E r \in BagToSet(pending) :
    /\ r.outcome = "awaiting"
    /\ ret' = IF driverOk
              THEN [r EXCEPT !.outcome = "toolSuccess"]
              ELSE [r EXCEPT !.outcome = "toolError", !.err = DriverErrorMessage]
    /\ pending' = pending (-) SetToBag({r})
    /\ UNCHANGED <<mgr, drv, nextId, calls, held>>

(* ------------------------------ read tools ----------------------------- *)

\* the $limit stage the aggregate tool appends for in-memory results
LimitStage == Stage(<<"$limit">>, <<>>)

\* a handler that has created its cursor and is suspended at await mkdir
AwaitsMkdir(r) == [r EXCEPT !.outcome = "awaitingMkdir"]

\* aggregate up to its first await (or the return): the connection check,
\* getDatabase, db.collection(name), the tool's own scan when isReadonly(),
\* then collection.aggregate on the pipeline as given (saveToFile) or with the
\* $limit stage appended; the handler then awaits mkdir (saveToFile) or the
\* cursor
registerAggregateTool(pipeline, saveToFile) ==
  IF ~isConnected
  THEN /\ ret' = [NoRet EXCEPT !.op = "aggregateTool", !.pipeline = pipeline,
                               !.outcome = "toolError", !.err = NotConnectedMessage]
       /\ UNCHANGED <<mgr, drv, nextId, calls, held, pending>>
  ELSE IF client = 0
  THEN /\ connectionError' =
            IF connectionError = Null THEN NotConnectedMessage ELSE connectionError
       /\ ret' = [NoRet EXCEPT !.op = "aggregateTool", !.pipeline = pipeline,
                               !.outcome = "toolError", !.err = NotConnectedMessage]
       /\ UNCHANGED <<client, isConnected, connectionString, readonlyMode,
                      disconnectReason, drv, nextId, calls, held, pending>>
  ELSE LET db == [level |-> "db", ro |-> readonlyMode]
           coll == HandleInvoke(db, "collection", <<>>, "undefined").handle
           passed == IF saveToFile THEN pipeline ELSE pipeline \o <<LimitStage>>
           r == [ToolResult("aggregateTool",
                            HandleInvoke(coll, "aggregate", passed, "undefined"))
                   EXCEPT !.pipeline = pipeline]
       IN /\ IF readonlyMode /\ ScanPipeline(pipeline) # ""
             THEN /\ ret' = [NoRet EXCEPT !.op = "aggregateTool",
                                          !.pipeline = pipeline,
                                          !.outcome = "toolError",
                                          !.err = "StageNotAllowed",
                                          !.name = ScanPipeline(pipeline)]
                  /\ UNCHANGED pending
             ELSE IF r.outcome = "threw"
             THEN /\ ret' = [r EXCEPT !.outcome = "toolError"]
                  /\ UNCHANGED pending
             ELSE /\ InFlight < MaxInFlight
                  /\ ret' = NoRet
                  /\ pending' = pending (+)
                       SetToBag({IF saveToFile THEN AwaitsMkdir(r) ELSE Awaits(r)})
          /\ UNCHANGED <<mgr, drv, nextId, calls, held>>

\* mkdir settles and an aggregate handler that saves to a file resumes: when
\* the directory is there (mkdirOk) it starts streaming the cursor to the
\* file and awaits that; otherwise its catch block returns toolError
aggregateMkdirSettled(mkdirOk) ==
  \E r \in BagToSet(pending) :
    /\ r.outcome = "awaitingMkdir"
    /\ IF mkdirOk
       THEN /\ ret' = NoRet
            /\ pending' = (pending (-) SetToBag({r})) (+) SetToBag({Awaits(r)})
       ELSE /\ ret' = [r EXCEPT !.outcome = "toolError", !.err = "MkdirError"]
            /\ pending' = pending (-) SetToBag({r})
    /\ UNCHANGED <<mgr, drv, nextId, calls, held>>

\* list-databases up to the await (or the throw): the connection check stands
\* before the try block, so its error leaves the handler; getClient and the
\* driver call are inside it
listDatabasesTool ==
  IF ~isConnected
  THEN /\ ret' = [NoRet EXCEPT !.op = "listDatabasesTool", !.outcome = "threw",
                               !.err = NotConnectedMessage]
       /\ UNCHANGED <<mgr, drv, nextId, calls, held, pending>>
  ELSE IF client = 0
  THEN /\ connectionError' =
            IF connectionError = Null THEN NotConnectedMessage ELSE connectionError
       /\ ret' = [NoRet EXCEPT !.op = "listDatabasesTool", !.outcome = "toolError",
                               !.err = NotConnectedMessage]
       /\ UNCHANGED <<client, isConnected, connectionString, readonlyMode,
                      disconnectReason, drv, nextId, calls, held, pending>>
  ELSE /\ InFlight < MaxInFlight
       /\ ret' = NoRet
       /\ pending' = pending (+) SetToBag({
            Awaits([NoRet EXCEPT !.op = "listDatabasesTool",
                                 !.driver = [NoDriverCall EXCEPT
                                               !.method = "listDatabases",
                                               !.level = "client",
                                               !.receiver = "target"]])})
       /\ UNCHANGED <<mgr, drv, nextId, calls, held>>

(* ----------------------- server and lifecycle tools -------------------- *)

\* a value of an environment variable: not set, or the characters of its
\* string
NotSet == [set |-> FALSE, chars |-> <<>>]
EnvString(chars) == [set |-> TRUE, chars |-> chars]

\* values of process.env.MONGODB_READONLY
EnvReadOnlyValues ==
  {NotSet, EnvString(<<>>), EnvString(<<"1">>),
   EnvString(<<"t", "r", "u", "e">>), EnvString(<<"T", "R", "U", "E">>),
   EnvString(<<"T", "r", "u", "e">>), EnvString(<<"t", "R", "u", "E">>),
   EnvString(<<"f", "a", "l", "s", "e">>), EnvString(<<"F", "A", "L", "S", "E">>),
   EnvString(<<"F", "a", "l", "s", "e">>)}

UpperCaseLetters ==
  <<"A", "B", "C", "D", "E", "F", "G", "H", "I", "J", "K", "L", "M",
    "N", "O", "P", "Q", "R", "S", "T", "U", "V", "W", "X", "Y", "Z">>
LowerCaseLetters ==
  <<"a", "b", "c", "d", "e", "f", "g", "h", "i", "j", "k", "l", "m",
    "n", "o", "p", "q", "r", "s", "t", "u", "v", "w", "x", "y", "z">>

\* String.prototype.toLowerCase: every upper-case letter becomes its
\* lower-case letter, every other character stays
toLowerCase(chars) ==
  [i \in DOMAIN chars |->
     IF \E n \in DOMAIN UpperCaseLetters : UpperCaseLetters[n] = chars[i]
     THEN LowerCaseLetters[CHOOSE n \in DOMAIN UpperCaseLetters :
                             UpperCaseLetters[n] = chars[i]]
     ELSE chars[i]]

\* main: the read-only option handed to the server; argvReadOnly is
\* argv['read-only'], which is true when --read-only is not given
readOnlyMode(envReadOnly, argvReadOnly) ==
  IF envReadOnly.set THEN toLowerCase(envReadOnly.chars) = <<"t", "r", "u", "e">>
  ELSE argvReadOnly

\* a connection string a caller passes that is not the configured one
OtherUri == "mongodb://other"

\* params.connectionString of the connect tool
ConnectParams == {Omitted, Uri, OtherUri}

\* JavaScript truthiness of a string-valued argument
Truthy(v) == v \notin {Null, Omitted, ""}

\* nothing has run yet and nothing is in flight: the server is being
\* constructed
Constructing ==
  /\ nextId = 0 /\ ret = NoRet /\ pending = EmptyBag
  /\ \A k \in Calls : calls[k] = IdleCall

\* the arguments of a call bind to the parameters by position: connect has
\* the single parameter readonlyMode, which takes the first argument
FirstArgument(args) == args[1]

\* the constructor's auto-connect branch: when the autoConnect option is on
\* and MONGODB_CONNECTION_STRING (envTool) is set,
\* connect(connectionString, readonlyMode) is issued and not awaited.  The
\* connection string arrives as the parameter readonlyMode and the
\* configured option, the second argument, binds to no parameter.  connect
\* throws when MONGODB_MCP_CONNECTION_STRING (env) is not set; the .catch
\* callback runs in a later job
autoConnect(flag, envTool, env, option) ==
  /\ Constructing
  /\ IF ~flag \/ ~Truthy(envTool)
     THEN /\ ret' = [NoRet EXCEPT !.op = "autoConnect", !.outcome = "skipped"]
          /\ UNCHANGED <<mgr, drv, nextId, calls, held, pending>>
     ELSE IF env = Null
     THEN /\ ret' = [NoRet EXCEPT !.op = "autoConnect", !.outcome = "issued"]
          /\ pending' = pending (+) SetToBag({StartupLog("ConfigurationError")})
          /\ UNCHANGED <<mgr, drv, nextId, calls, held>>
     ELSE /\ \E k \in Calls :
               /\ FreeCall(k)
               /\ CreateAndIssueConnect(
                    StartupCaller, k,
                    ReadonlyModeParam(TRUE, Truthy(FirstArgument(<<envTool, option>>))))
          /\ ret' = [NoRet EXCEPT !.op = "autoConnect", !.outcome = "issued"]
          /\ UNCHANGED <<isConnected, connectionString, readonlyMode,
                         disconnectReason, connectionError, held, pending>>

\* the .catch callback of the constructor's connect call runs and logs the
\* error
autoConnectCatch ==
  \E r \in BagToSet(pending) :
    /\ r.op = "autoConnect"
    /\ ret' = r
    /\ pending' = pending (-) SetToBag({r})
    /\ UNCHANGED <<mgr, drv, nextId, calls, held>>

AlreadyConnectedMessage == "Already connected to MongoDB with the same connection string"

\* mutant of connectTool: no test for an existing connection to the same target
connectToolAlwaysConnects(param, envTool, env) ==
  LET target == IF param = Omitted THEN envTool ELSE param
  IN IF ~Truthy(target)
     THEN /\ ret' = ToolError("connectTool", "ConnectionStringRequired")
          /\ UNCHANGED <<mgr, drv, nextId, calls, held, pending>>
     ELSE /\ InFlight < MaxInFlight
          /\ \E k \in Calls :
               connectFrom(ConnectToolCaller(Truthy(param)), k, env,
                           ReadonlyModeParam(param # Omitted, Truthy(param)))

\* the connect tool from its entry to its await (or its return): the target
\* is params.connectionString ?? MONGODB_CONNECTION_STRING (envTool); unless
\* already connected to it, mongoClient.connect(params.connectionString) is
\* called, whose single parameter is readonlyMode and which reads
\* MONGODB_MCP_CONNECTION_STRING (env) itself; the handler awaits that call,
\* also when the call throws at once
connectTool(param, envTool, env) ==
  LET target == IF param = Omitted THEN envTool ELSE param
  IN IF ~Truthy(target)
     THEN /\ ret' = ToolError("connectTool", "ConnectionStringRequired")
          /\ UNCHANGED <<mgr, drv, nextId, calls, held, pending>>
     ELSE IF getConnectionInfo.isConnected /\ connectionString = target
     THEN /\ ret' = ToolSuccess("connectTool", AlreadyConnectedMessage, TRUE, Null)
          /\ UNCHANGED <<mgr, drv, nextId, calls, held, pending>>
     ELSE /\ InFlight < MaxInFlight
          /\ \E k \in Calls :
               connectFrom(ConnectToolCaller(Truthy(param)), k, env,
                           ReadonlyModeParam(param # Omitted, Truthy(param)))

\* mutant of disconnectTool: no test of getConnectionInfo().isConnected
disconnectToolAlwaysDisconnects ==
  /\ InFlight < MaxInFlight
  /\ \E k \in Calls : disconnectFrom(DisconnectToolCaller, k, "normal disconnect")

\* the disconnect tool from its entry to its await (or its return): when
\* getConnectionInfo reports a connection the handler awaits
\* client.disconnect('normal disconnect'), also when that call has nothing
\* to close
disconnectTool ==
  LET info == getConnectionInfo
  IN IF ~info.isConnected
     THEN /\ ret' = ToolSuccess("disconnectTool", "Already disconnected from MongoDB",
                                FALSE,
                                IF info.disconnectReason = Null THEN "not connected"
                                ELSE info.disconnectReason)
          /\ UNCHANGED <<mgr, drv, nextId, calls, held, pending>>
     ELSE /\ InFlight < MaxInFlight
          /\ \E k \in Calls : disconnectFrom(DisconnectToolCaller, k, "normal disconnect")

\* the connect or disconnect tool's handler resumes after the manager call it
\* awaited has settled and returns its payload
lifecycleToolResumed ==
  \E r \in BagToSet(pending) :
    /\ r.op \in {"connectTool", "disconnectTool"}
    /\ ret' = r
    /\ pending' = pending (-) SetToBag({r})
    /\ UNCHANGED <<mgr, drv, nextId, calls, held>>

(* ---------------------------- specifications --------------------------- *)

\* the connection lifecycle: overlapping calls, driver outcomes and signals
Next ==
  \/ \E ro \in BOOLEAN : setReadonlyMode(ro)
  \/ \E k \in Calls, env \in {Null, Uri}, given \in BOOLEAN, arg \in BOOLEAN :
       connect(k, env, ReadonlyModeParam(given, arg))
  \/ \E k \in Calls : connectCloseResolved(k)
  \/ \E k \in Calls : connectDisconnected(k)
  \/ \E k \in Calls : connectCloseRejected(k)
  \/ \E k \in Calls : connectResolved(k)
  \/ \E k \in Calls : connectRejected(k)
  \/ \E k \in Calls, arg \in CallerReasons \cup {Omitted} : disconnect(k, arg)
  \/ \E k \in Calls : disconnectCloseResolved(k)
  \/ \E k \in Calls : disconnectCloseRejected(k)
  \/ \E c \in Clients, sig \in Signals : onSignal(c, sig)
  \/ getClient
  \/ getDatabase

Spec == Init /\ [][Next]_vars

\* every promise the driver returns settles: a pending close() or connect()
\* eventually resolves or rejects
DriverSettles ==
  \A k \in Calls :
    /\ WF_vars(connectCloseResolved(k) \/ connectCloseRejected(k))
    /\ WF_vars(connectDisconnected(k))
    /\ WF_vars(connectResolved(k) \/ connectRejected(k))
    /\ WF_vars(disconnectCloseResolved(k) \/ disconnectCloseRejected(k))

\* the connection lifecycle with a driver whose calls all settle
SpecSettling == Spec /\ DriverSettles

\* the members the caller of NextInterceptor reads and calls, one or two for
\* every branch of the two get traps: the collection accessor, aggregate, a
\* method of the database that is not blocklisted, two blocklisted names, a
\* method of the collection that is not blocklisted, and a name the target
\* does not have
HandleProps ==
  {"collection", "aggregate", "admin", "insertOne", "bulkWrite", "countDocuments",
   "nosuch"}
\* the pipelines that caller passes to aggregate: the empty one, two
\* top-level writing stages, a $out nested in $lookup, and an empty stage
\* object followed by a stage whose later key is $out
HandlePipelines ==
  {<<>>,
   <<Stage(<<"$merge">>, <<>>), Stage(<<"$out">>, <<>>)>>,
   <<Stage(<<"$match">>, <<>>), Stage(<<"$lookup">>, <<"$out">>)>>,
   <<Stage(<<>>, <<>>), Stage(<<"$match", "$out">>, <<>>)>>}

\* the connection lifecycle, and a caller that takes handles, keeps them,
\* and uses them at any time
NextInterceptor ==
  \/ Next
  \/ keepHandle
  \/ \E prop \in HandleProps : handleGet(prop)
  \/ \E prop \in HandleProps : handleCall(prop)
  \/ \E pipeline \in HandlePipelines : handleAggregate(pipeline, "options")

SpecInterceptor == Init /\ [][NextInterceptor]_vars

\* the connection lifecycle, and the insert, update and delete tools called
\* at any time
NextHandlers ==
  \/ Next
  \/ \E many \in BOOLEAN : registerInsertTool(many)
  \/ \E multi \in BOOLEAN : registerUpdateTool(multi)
  \/ \E multi \in BOOLEAN : registerDeleteTool(multi)
  \/ \E driverOk \in BOOLEAN : handlerResumed(driverOk)

SpecHandlers == Init /\ [][NextHandlers]_vars

\* the pipelines the caller of the aggregate tool passes
ToolPipelines == {<<Stage(<<"$match">>, <<>>)>>, <<Stage(<<"$out">>, <<>>)>>}

\* the connection lifecycle, and the aggregate tool (with and without
\* saveToFile) and the list-databases tool called at any time
NextReadTools ==
  \/ Next
  \/ \E pipeline \in ToolPipelines, saveToFile \in BOOLEAN :
       registerAggregateTool(pipeline, saveToFile)
  \/ \E mkdirOk \in BOOLEAN : aggregateMkdirSettled(mkdirOk)
  \/ listDatabasesTool
  \/ \E driverOk \in BOOLEAN : handlerResumed(driverOk)

SpecReadTools == Init /\ [][NextReadTools]_vars

\* the server: its construction, then the connect tool called at any time,
\* the manager's continuations and the driver's signals
NextTools ==
  \/ \E flag \in BOOLEAN, envTool \in {Null, Uri}, env \in {Null, Uri},
        envReadOnly \in EnvReadOnlyValues, argvReadOnly \in BOOLEAN :
       autoConnect(flag, envTool, env, readOnlyMode(envReadOnly, argvReadOnly))
  \/ autoConnectCatch
  \/ \E param \in ConnectParams, envTool \in {Null, Uri}, env \in {Null, Uri} :
       connectTool(param, envTool, env)
  \/ lifecycleToolResumed
  \/ \E k \in Calls : connectCloseResolved(k)
  \/ \E k \in Calls : connectDisconnected(k)
  \/ \E k \in Calls : connectCloseRejected(k)
  \/ \E k \in Calls : connectResolved(k)
  \/ \E k \in Calls : connectRejected(k)
  \/ \E c \in Clients, sig \in Signals : onSignal(c, sig)
  \/ getClient
  \/ getDatabase

SpecTools == Init /\ [][NextTools]_vars

\* the connection lifecycle, and the disconnect tool called at any time
NextDisconnectTool ==
  \/ Next
  \/ disconnectTool
  \/ lifecycleToolResumed

SpecDisconnectTool == Init /\ [][NextDisconnectTool]_vars

(* ------------------------------- claims -------------------------------- *)

DbReadOnly == [level |-> "db", ro |-> TRUE]
CollReadOnly == [level |-> "coll", ro |-> TRUE]
DbRaw == [level |-> "db", ro |-> FALSE]

\* the name of a top-level stage: the key of the stage object (its first key
\* when the object has several)
TopLevelName(stage) == IF Len(stage.keys) = 0 THEN "" ELSE stage.keys[1]

\* positions of the top-level stages named $out or $merge
DangerousPositions(pipeline) ==
  {i \in 1..Len(pipeline) : TopLevelName(pipeline[i]) \in {"$out", "$merge"}}

FirstDangerousPosition(pipeline) ==
  CHOOSE i \in DangerousPositions(pipeline) :
    \A j \in DangerousPositions(pipeline) : i <= j

\* the write blocklist as the contract lists it
Blocklist ==
  {"addUser", "removeUser", "createCollection", "createIndex", "dropCollection",
   "dropIndex", "dropDatabase", "renameCollection", "updateOne", "updateMany",
   "replaceOne", "deleteOne", "deleteMany", "insertOne", "insertMany",
   "findOneAndReplace", "findOneAndUpdate", "findOneAndDelete", "bulkWrite"}

\* every handle getDatabase and collection() can hand out
Handles == [level : {"db", "coll"}, ro : BOOLEAN]

\* every result a read, a call or an aggregate on a handle can deliver, over
\* every handle, every property name, every pipeline of up to MaxPipelineLen
\* stages and both option values
HandleResults ==
  {GetResult(h, prop) : h \in Handles, prop \in PropNames}
    \cup {CallResult(h, prop) : h \in Handles, prop \in PropNames \ {"aggregate"}}
    \cup {AggregateResult(h, pipeline, options) :
             h \in Handles, pipeline \in Pipelines, options \in OptionValues}

C1_Case(r) ==
  (r.op = "call" /\ r.recv = DbReadOnly /\ r.prop \in Blocklist)
    => /\ r.outcome = "threw"
       /\ r.err = "OperationNotAllowed"
       /\ r.name = r.prop
       /\ r.driver = NoDriverCall
C1_EveryInput == \A r \in HandleResults : C1_Case(r)

\* C1: calling any name of the write blocklist on a read-only database handle
\* throws a read-only violation naming exactly that operation, and nothing
\* reaches the driver.
C1_DatabaseWritesBlocked == C1_EveryInput /\ C1_Case(ret)
C1_Witness ==
  /\ ret.op = "call" /\ ret.recv = DbReadOnly /\ ret.prop = "bulkWrite"
  /\ ret.outcome = "threw" /\ ret.name = "bulkWrite"

\* C2: every collection-level write method called on a collection handle
\* obtained through a read-only database handle throws a read-only violation
\* naming that operation and never reaches the driver.
C2_NestedCollectionWritesBlocked ==
  (ret.op = "call" /\ ret.recv = CollReadOnly /\ ret.prop \in CollectionWriteMethods)
    => /\ ret.outcome = "threw"
       /\ ret.err = "OperationNotAllowed"
       /\ ret.name = ret.prop
       /\ ret.driver = NoDriverCall

DocumentMutators ==
  {"insertOne", "insertMany", "updateOne", "updateMany", "deleteOne", "deleteMany"}

\* the insert, update or delete tool is invoked in this step
WriteToolInvoked ==
  \/ \E many \in BOOLEAN : registerInsertTool(many)
  \/ \E multi \in BOOLEAN : registerUpdateTool(multi)
  \/ \E multi \in BOOLEAN : registerDeleteTool(multi)

\* C3: in read-only mode no invocation of the insert, update or delete tool
\* calls a document-mutating driver method, and each ends with an error
\* payload: the handler issues no driver call to wait for and returns the error.
C3_WriteToolsBlockedInReadOnly ==
  [][(readonlyMode /\ WriteToolInvoked)
       => /\ pending' = pending
          /\ ret'.outcome = "toolError"
          /\ ret'.driver.method \notin DocumentMutators]_vars

C4_Case(r) ==
  (r.op = "aggregate" /\ r.recv.ro /\ DangerousPositions(r.pipeline) # {})
    => /\ r.outcome = "threw"
       /\ r.err = "StageNotAllowed"
       /\ r.name = TopLevelName(r.pipeline[FirstDangerousPosition(r.pipeline)])
       /\ r.driver = NoDriverCall
C4_EveryInput == \A r \in HandleResults : C4_Case(r)

\* C4: on a read-only handle of either level, aggregate with a pipeline that
\* has a top-level $out or $merge stage throws a read-only violation naming
\* the first such stage in pipeline order, and the driver is not invoked.
C4_DangerousStageRejected == C4_EveryInput /\ C4_Case(ret)
C4_Witness ==
  /\ ret.op = "aggregate" /\ ret.recv = CollReadOnly
  /\ ret.pipeline = <<Stage(<<"$merge">>, <<>>), Stage(<<"$out">>, <<>>)>>
  /\ ret.outcome = "threw" /\ ret.name = "$merge"

C5_Case(r) ==
  (r.op = "aggregate" /\ r.recv.ro /\ DangerousPositions(r.pipeline) = {})
    => /\ r.outcome = "returned"
       /\ r.result = "driverResult"
       /\ r.driver = [method |-> "aggregate", level |-> r.recv.level,
                        receiver |-> "target",
                        pipeline |-> r.pipeline, options |-> r.options]
C5_EveryInput == \A r \in HandleResults : C5_Case(r)

\* C5: on a read-only handle, aggregate with a pipeline that has no top-level
\* $out or $merge stage (the empty pipeline, a $out nested in $lookup) invokes
\* the driver's aggregate once with the same pipeline and options and returns
\* its result.
C5_SafePipelineForwarded == C5_EveryInput /\ C5_Case(ret)
C5_Witness ==
  /\ ret.op = "aggregate" /\ ret.recv = CollReadOnly
  /\ ret.pipeline = <<Stage(<<"$match">>, <<>>), Stage(<<"$lookup">>, <<"$out">>)>>
  /\ ret.options = "options"
  /\ ret.outcome = "returned" /\ ret.driver.method = "aggregate"

C6_Case(r) ==
  (r.op \in {"call", "aggregate"} /\ ~r.recv.ro
     /\ TypeOf(r.recv.level, r.prop) = "function")
    => /\ r.outcome = "returned"
       /\ r.driver = [method |-> r.prop, level |-> r.recv.level,
                      receiver |-> "target",
                      pipeline |-> r.pipeline, options |-> r.options]
C6_EveryInput == \A r \in HandleResults : C6_Case(r)

\* C6: getDatabase hands out the raw driver handle exactly when readOnly is
\* false, and every call on a raw handle, blocklisted writes and aggregate
\* with $out/$merge included, is forwarded to the driver.
C6_RawHandleWhenNotReadOnly ==
  /\ (ret.op = "getDatabase" /\ ret.outcome = "returned")
       => ret.handle = [level |-> "db", ro |-> readonlyMode]
  /\ C6_EveryInput
  /\ C6_Case(ret)
C6_Witness ==
  /\ ret.op = "aggregate" /\ ret.recv = DbRaw
  /\ ret.pipeline = <<Stage(<<"$merge">>, <<>>), Stage(<<"$out">>, <<>>)>>
  /\ ret.outcome = "returned" /\ ret.driver.method = "aggregate"

\* C7: in every reachable state connectionTarget is non-null if and only if
\* the phase is Connected.
C7_TargetIffConnected == (connectionString # Null) <=> isConnected

\* driver clients that were constructed and on which close() was never called
LiveClients ==
  {c \in Clients : drv[c].st \notin {"absent", "closed"} /\ drv[c].closeCalls = 0}

\* C8: at most one driver client that was created and not yet closed exists.
C8_AtMostOneLiveClient == Cardinality(LiveClients) <= 1

\* C9: getDatabase / getClient while not Connected throws the not-connected
\* error, returns no handle, and records the not-connected fault only when no
\* fault was recorded before.
C9_NotConnectedFailsFast ==
  [][(ret'.op \in {"getClient", "getDatabase"} /\ ~isConnected)
       => /\ ret'.outcome = "threw"
          /\ ret'.err = NotConnectedMessage
          /\ ret'.handle = NoHandle /\ ret'.result = ""
          /\ connectionError' =
               IF connectionError = Null THEN NotConnectedMessage ELSE connectionError]_vars
C9_Witness ==
  /\ ret.op = "getDatabase" /\ ret.outcome = "threw"
  /\ connectionError = ConnectFailureMessage

\* the labels of the three signals that flip the phase
HardFaultLabels == {"server closed connection", "connection closed", "connection error"}

\* C10: after a server-closed, connection-closed or error signal has flipped
\* the phase, lastError is set, and until a connect succeeds every
\* getDatabase / getClient call throws the not-connected error and
\* getConnectionInfo keeps reporting the signal's label as disconnectReason.
C10_FaultReasonPersists ==
  [][/\ (isConnected /\ ~isConnected' /\ disconnectReason' \in HardFaultLabels)
          => connectionError' # Null
     /\ (~isConnected /\ ret'.op \in {"getClient", "getDatabase"})
          => (ret'.outcome = "threw" /\ ret'.err = NotConnectedMessage)
     /\ (~isConnected /\ disconnectReason \in HardFaultLabels /\ ~isConnected')
          => getConnectionInfo'.disconnectReason = disconnectReason]_vars

\* the getters succeed: the phase is Connected and a driver client is held
Live == isConnected /\ client # 0

\* C11: a heartbeat-failed signal received while Connected leaves the phase
\* Connected and the connection target in place, getConnectionInfo reports a
\* connectionError, and getDatabase / getClient still succeed afterwards.
C11_HeartbeatKeepsConnected ==
  [][/\ ((\E c \in Clients : onSignal(c, "serverHeartbeatFailed")) /\ Live)
          => /\ Live'
             /\ connectionString' = connectionString
             /\ getConnectionInfo'.isConnected
             /\ getConnectionInfo'.connectionError = SignalFault("serverHeartbeatFailed")
     /\ (Live /\ connectionError = SignalFault("serverHeartbeatFailed")
           /\ ret'.op \in {"getClient", "getDatabase"})
          => ret'.outcome = "returned"]_vars
C11_Witness ==
  /\ isConnected /\ connectionString = Uri
  /\ connectionError = SignalFault("serverHeartbeatFailed")
  /\ ret.op = "getDatabase" /\ ret.outcome = "returned"

\* C12: disconnect(reason) called while Connected issues close() on the held
\* driver client, and when it returns the phase is Disconnected, the
\* connection target is null, that driver client is closed,
\* lastDisconnectReason is the reason passed and lastError is cleared, also
\* when a fault had been recorded before.
C12_DisconnectWhileConnected ==
  [][\A k \in Calls :
       /\ \A reason \in CallerReasons :
            (disconnect(k, reason) /\ Live)
              => /\ calls'[k] = [pc |-> "disc_close", cli |-> client, ro |-> FALSE,
                                 reason |-> reason, by |-> NoTool]
                 /\ drv'[client].closeCalls = drv[client].closeCalls + 1
       /\ (calls[k].pc = "disc_close" /\ calls'[k].pc = "idle"
             /\ ret'.op = "disconnect" /\ ret'.outcome = "returned")
              => /\ ~isConnected'
                 /\ client' = 0
                 /\ connectionString' = Null
                 /\ drv'[calls[k].cli].st = "closed"
                 /\ disconnectReason' = calls[k].reason
                 /\ connectionError' = Null
                 /\ getConnectionInfo' = [isConnected |-> FALSE,
                                          disconnectReason |-> calls[k].reason,
                                          connectionError |-> Null]]_vars
C12_Witness ==
  /\ ret.op = "disconnect" /\ ret.outcome = "returned"
  /\ ~isConnected /\ client = 0 /\ connectionString = Null
  /\ disconnectReason = "normal disconnect" /\ connectionError = Null
  /\ drv[1].st = "closed" /\ drv[1].closeCalls = 1 /\ nextId = 1

\* callers pass only CallerReasons, so a suspended disconnect that carries the
\* default value is one whose caller left the reason out
ReasonOmitted(k) ==
  /\ calls[k].pc \in {"disc_close", "conn_close"}
  /\ calls[k].reason \notin CallerReasons

\* C13: when a disconnect whose reason was omitted (the implicit disconnect of
\* connect included) completes, the recorded lastDisconnectReason is exactly
\* "normal disconnect".
C13_DefaultReasonIsNormal ==
  [][\A k \in Calls :
       (ReasonOmitted(k) /\ calls'[k].pc # calls[k].pc /\ ret'.outcome # "threw")
         => disconnectReason' = "normal disconnect"]_vars

\* C14: a disconnect() called right after a disconnect has returned raises no
\* error, changes no field of the connection state and issues no close() to
\* the driver.
C14_DisconnectIdempotent ==
  [][(ret.op = "disconnect" /\ ret.outcome = "returned"
        /\ \E k \in Calls, arg \in CallerReasons \cup {Omitted} : disconnect(k, arg))
       => /\ ret'.op = "disconnect" /\ ret'.outcome = "returned"
          /\ ret'.driver = NoDriverCall
          /\ UNCHANGED <<mgr, drv, nextId, calls>>]_vars
C14_Witness ==
  /\ ret.op = "disconnect" /\ ret.outcome = "returned" /\ ret.driver = NoDriverCall
  /\ drv[1].st = "closed" /\ drv[1].closeCalls = 1 /\ nextId = 1
  /\ client = 0 /\ ~isConnected /\ disconnectReason = "normal disconnect"

\* the phase is Disconnected: not connected and no connect in progress
PhaseDisconnected ==
  /\ ~isConnected
  /\ \A k \in Calls : calls[k].pc \notin {"conn_close", "conn_resume", "conn_wait"}

\* C15: disconnect(reason) called while the phase is Disconnected, however
\* that state was reached, returns at once, calls no driver close() and leaves
\* lastDisconnectReason and lastError unchanged.
C15_DisconnectNoOpWhenDisconnected ==
  [][(PhaseDisconnected
        /\ \E k \in Calls, arg \in CallerReasons \cup {Omitted} : disconnect(k, arg))
       => /\ ret'.op = "disconnect" /\ ret'.outcome = "returned"
          /\ UNCHANGED <<drv, calls, disconnectReason, connectionError>>]_vars

\* C16: connect called while Connected issues close() on the old driver
\* client and creates no new one yet; when it goes on to create the new
\* client, the old one is closed and close() was called on it exactly once.
C16_OldSessionClosedOnce ==
  [][\A k \in Calls :
       /\ (Live /\ \E ro \in BOOLEAN : connect(k, Uri, ro))
            => /\ calls'[k].pc = "conn_close" /\ calls'[k].cli = client
               /\ nextId' = nextId
       /\ (calls[k].pc = "conn_resume" /\ calls'[k].pc = "conn_wait")
            => /\ drv[calls'[k].cli].st = "absent"
               /\ drv'[calls[k].cli].st = "closed"
               /\ drv'[calls[k].cli].closeCalls = 1]_vars

\* C17: a connect call carries the read-only value passed (true when the
\* argument is left out), and when the driver's connect() succeeds the call
\* returns with the phase Connected, the connection target set to the
\* resolved target, lastDisconnectReason and lastError cleared and readOnly
\* equal to the value the call carries.
C17_ConnectSuccess ==
  [][\A k \in Calls :
       /\ \A given \in BOOLEAN, arg \in BOOLEAN :
            (connect(k, Uri, ReadonlyModeParam(given, arg)) /\ calls'[k].pc # "idle")
              => calls'[k].ro = (IF given THEN arg ELSE TRUE)
       /\ (calls[k].pc = "conn_wait" /\ calls'[k].pc = "idle"
             /\ ret'.op = "connect" /\ ret'.outcome = "returned")
            => /\ isConnected'
               /\ connectionString' = Uri
               /\ disconnectReason' = Null
               /\ connectionError' = Null
               /\ readonlyMode' = calls[k].ro
               /\ getConnectionInfo' = [isConnected |-> TRUE, disconnectReason |-> Null,
                                        connectionError |-> Null]]_vars
C17_Witness ==
  /\ ret.op = "connect" /\ ret.outcome = "returned"
  /\ isConnected /\ connectionString = Uri /\ readonlyMode
  /\ disconnectReason = Null /\ connectionError = Null
  /\ drv[1].st = "failed" /\ drv[2].st = "connected" /\ client = 2

\* C18: when the driver's connect() fails, the connect call raises a
\* connection error, the phase is Disconnected (getConnectionInfo reports
\* isConnected false) and connectionError is the failure's message; a later
\* successful connect clears connectionError.
C18_ConnectFailure ==
  [][\A k \in Calls :
       /\ (calls[k].pc = "conn_wait" /\ calls'[k].pc = "idle"
             /\ ret'.op = "connect" /\ ret'.outcome = "threw")
            => /\ ret'.err = "ConnectionError"
               /\ ~getConnectionInfo'.isConnected
               /\ getConnectionInfo'.connectionError = ConnectFailureMessage
       /\ (calls[k].pc = "conn_wait" /\ calls'[k].pc = "idle"
             /\ ret'.op = "connect" /\ ret'.outcome = "returned")
            => getConnectionInfo'.connectionError = Null]_vars

\* C19: connect called when no connection target resolves throws a
\* configuration error and changes nothing: no close() is issued on a live
\* client, no client is created, and the phase, the connection target,
\* lastDisconnectReason and lastError keep their values.
C19_NoTargetChangesNothing ==
  [][(\E k \in Calls, ro \in BOOLEAN : connect(k, Null, ro))
       => /\ ret'.op = "connect" /\ ret'.outcome = "threw"
          /\ ret'.err = "ConfigurationError"
          /\ UNCHANGED <<mgr, drv, nextId, calls>>]_vars
C19_Witness ==
  /\ ret.op = "connect" /\ ret.outcome = "threw" /\ ret.err = "ConfigurationError"
  /\ isConnected /\ client = 1 /\ connectionString = Uri
  /\ drv[1] = [st |-> "connected", closeCalls |-> 0, listeners |-> Signals]
  /\ connectionError = SignalFault("serverHeartbeatFailed")

\* C20: while a connection lasts, that is over every step that starts and
\* ends Connected and is not the successful completion of a connect, the
\* read-only policy that getDatabase applies does not change; in particular
\* setReadonlyMode does not change it.
C20_PolicyFixedWhileConnected ==
  [][(isConnected /\ isConnected'
        /\ ~(ret'.op = "connect" /\ ret'.outcome = "returned"))
       => readonlyMode' = readonlyMode]_vars

\* C21: unless the read-only option was explicitly disabled, isReadonly() is
\* true in every reachable state (before any connect, after auto-connect,
\* after a connect through the connect tool) and getDatabase returns an
\* intercepted handle; and when the option was disabled, a connect through
\* the connect tool does not re-enable read-only mode.
C21_ReadOnlyByDefault ==
  [][\A envReadOnly \in EnvReadOnlyValues, argvReadOnly \in BOOLEAN :
       /\ readOnlyMode(envReadOnly, argvReadOnly)
            => /\ readonlyMode /\ readonlyMode'
               /\ (ret'.op = "getDatabase" /\ ret'.outcome = "returned")
                    => ret'.handle = DbReadOnly
       /\ (~readOnlyMode(envReadOnly, argvReadOnly)
             /\ \E k \in Calls : calls[k].by.tool = "connectTool" /\ connectResolved(k))
            => readonlyMode' = readonlyMode]_vars

\* C22: getConnectionInfo reports isConnected equal to the phase being
\* Connected; disconnectReason is present exactly when the phase is not
\* Connected and a reason is recorded, and is then that reason;
\* connectionError is present exactly when a fault is recorded, whatever the
\* phase, and is then that fault's message.
C22_ConnectionInfoSnapshot ==
  /\ getConnectionInfo.isConnected = isConnected
  /\ (getConnectionInfo.disconnectReason # Null)
       <=> (~isConnected /\ disconnectReason # Null)
  /\ (getConnectionInfo.disconnectReason # Null)
       => getConnectionInfo.disconnectReason = disconnectReason
  /\ (getConnectionInfo.connectionError # Null) <=> (connectionError # Null)
  /\ getConnectionInfo.connectionError = connectionError
C22_Witness ==
  /\ isConnected /\ disconnectReason = SignalLabel("serverHeartbeatFailed")
  /\ getConnectionInfo = [isConnected |-> TRUE, disconnectReason |-> Null,
                          connectionError |-> SignalFault("serverHeartbeatFailed")]

\* member kinds that are callable
Callables == {"thrower", "collectionWrapper", "aggregateWrapper", "bound", "unbound"}

\* the names blocked at a handle's level: the write blocklist on a database
\* handle, the write methods on a collection handle
BlockedAt(level) == IF level = "db" THEN Blocklist ELSE CollectionWriteMethods

\* C23: a blocked operation fails at call time, not at access time: reading a
\* blocklisted property from a read-only handle never throws and yields a
\* callable, and invoking that callable throws a read-only violation that
\* names exactly the blocked operation.
C23_BlockedFailsAtCallTime ==
  /\ (ret.op = "get" /\ ret.recv.ro /\ ret.prop \in BlockedAt(ret.recv.level))
       => (ret.outcome = "returned" /\ ret.result \in Callables)
  /\ (ret.op = "call" /\ ret.recv.ro /\ ret.prop \in BlockedAt(ret.recv.level))
       => /\ ret.outcome = "threw"
          /\ ret.err = "OperationNotAllowed"
          /\ ret.name = ret.prop

\* the raw handle of the same level
RawOf(h) == [level |-> h.level, ro |-> FALSE]

\* names the interceptor treats specially on some handle
SpecialNames == Blocklist \cup CollectionWriteMethods \cup {"collection", "aggregate"}

C24_Case(r) ==
  /\ (r.op = "get" /\ r.recv.ro /\ r.prop \notin SpecialNames)
       => /\ r.outcome = "returned"
          /\ IF TypeOf(r.recv.level, r.prop) = "function"
             THEN r.result \in Callables
             ELSE /\ r.result = "value"
                  /\ r.result = HandleGet(RawOf(r.recv), r.prop)
  /\ (r.op = "call" /\ r.recv.ro /\ r.prop \notin SpecialNames
        /\ TypeOf(r.recv.level, r.prop) = "function")
       => /\ r.outcome = "returned"
          /\ r.result = "driverResult"
          /\ r.driver = [method |-> r.prop, level |-> r.recv.level,
                           receiver |-> "target",
                           pipeline |-> r.pipeline, options |-> r.options]
C24_EveryInput == \A r \in HandleResults : C24_Case(r)

\* C24: for every property name that is not blocklisted and is neither the
\* collection accessor nor aggregate, a read-only handle behaves like the raw
\* handle: reading a non-callable member yields the value the raw handle
\* yields, unchanged; reading a callable member yields a callable, and calling
\* it through the handle invokes the underlying method on the real target
\* with the same arguments and returns its result.
C24_OtherMembersPassThrough == C24_EveryInput /\ C24_Case(ret)
C24_Witness ==
  /\ ret.op = "call" /\ ret.recv = DbReadOnly /\ ret.prop = "admin"
  /\ ret.outcome = "returned" /\ ret.result = "driverResult"
  /\ ret.driver = [method |-> "admin", level |-> "db", receiver |-> "target",
                   pipeline |-> <<>>, options |-> "undefined"]

\* C25: in read-only mode the aggregate tool answers a pipeline that has a
\* top-level $out or $merge stage with an error payload naming the stage and
\* never calls the collection's aggregate; in non-read-only mode the same
\* pipeline is passed to the driver's aggregate.
C25_AggregateToolGate ==
  [][\A pipeline \in Pipelines, saveToFile \in BOOLEAN :
       (registerAggregateTool(pipeline, saveToFile) /\ Live
          /\ DangerousPositions(pipeline) # {})
         => IF readonlyMode
            THEN /\ ret'.outcome = "toolError"
                 /\ ret'.err = "StageNotAllowed"
                 /\ ret'.name \in {"$out", "$merge"}
                 /\ ret'.driver = NoDriverCall
                 /\ pending' = pending
            ELSE \E r \in BagToSet(pending') :
                   /\ pending' = pending (+) SetToBag({r})
                   /\ r.driver.method = "aggregate"
                   /\ r.driver.level = "coll"
                   /\ r.driver.pipeline = pipeline]_vars

\* the connection string the connect tool would use
ToolTarget(param, envTool) == IF param = Omitted THEN envTool ELSE param

\* C26: when the client is connected and its stored connection string equals
\* the one the connect tool would use, the connect tool returns success with
\* the message 'Already connected to MongoDB with the same connection string'
\* without calling MongoDBClient.connect and without changing ConnectionState.
C26_ConnectToolShortcut ==
  [][\A param \in ConnectParams, envTool \in {Null, Uri}, env \in {Null, Uri} :
       (connectTool(param, envTool, env) /\ isConnected
          /\ ToolTarget(param, envTool) # Null
          /\ connectionString = ToolTarget(param, envTool))
         => /\ ret'.op = "connectTool" /\ ret'.outcome = "toolSuccess"
            /\ ret'.payload = [success |-> TRUE, message |-> AlreadyConnectedMessage,
                               isConnected |-> TRUE, disconnectReason |-> Null]
            /\ UNCHANGED <<mgr, drv, nextId, calls>>]_vars
C26_Witness ==
  /\ ret.op = "connectTool" /\ ret.outcome = "toolSuccess"
  /\ ret.payload.message = AlreadyConnectedMessage
  /\ isConnected /\ connectionString = Uri /\ client = 1
  /\ drv[1] = [st |-> "connected", closeCalls |-> 0, listeners |-> Signals] /\ nextId = 1

\* C27: when getConnectionInfo reports not connected, the disconnect tool
\* returns success with isConnected false and disconnectReason equal to the
\* recorded reason ('not connected' when none is recorded) without calling
\* MongoDBClient.disconnect; when connected it calls
\* disconnect('normal disconnect') exactly once: the handler is suspended at
\* that call, which issues close() on the held client or finds none to
\* close, and the handler's continuation calls nothing more.
C27_DisconnectTool ==
  [][/\ disconnectTool
          => IF ~getConnectionInfo.isConnected
             THEN /\ ret'.op = "disconnectTool" /\ ret'.outcome = "toolSuccess"
                  /\ ret'.payload.success /\ ~ret'.payload.isConnected
                  /\ ret'.payload.disconnectReason =
                       (IF disconnectReason = Null THEN "not connected"
                        ELSE disconnectReason)
                  /\ ret'.driver = NoDriverCall
                  /\ UNCHANGED <<mgr, drv, nextId, calls, pending>>
             ELSE /\ ret' = NoRet
                  /\ UNCHANGED <<mgr, nextId>>
                  /\ IF client # 0
                     THEN /\ \E k \in Calls :
                               /\ FreeCall(k)
                               /\ calls' = [calls EXCEPT ![k] =
                                              [pc |-> "disc_close", cli |-> client,
                                               ro |-> FALSE,
                                               reason |-> "normal disconnect",
                                               by |-> DisconnectToolCaller]]
                          /\ drv' = [drv EXCEPT ![client].closeCalls = @ + 1]
                          /\ pending' = pending
                     ELSE /\ UNCHANGED <<drv, calls>>
                          /\ pending' = pending (+) SetToBag({
                               ToolSuccess("disconnectTool",
                                           "Disconnected from MongoDB successfully",
                                           FALSE, "normal disconnect")})
     /\ (lifecycleToolResumed /\ ret'.op = "disconnectTool")
          => UNCHANGED <<mgr, drv, nextId, calls>>]_vars
C27_Witness ==
  /\ ret.op = "disconnectTool" /\ ret.outcome = "toolSuccess"
  /\ ret.payload = [success |-> TRUE,
                    message |-> "Disconnected from MongoDB successfully",
                    isConnected |-> FALSE, disconnectReason |-> "normal disconnect"]
  /\ ~isConnected /\ client = 0 /\ disconnectReason = "normal disconnect"
  /\ drv[1] = [st |-> "closed", closeCalls |-> 1, listeners |-> Signals]
  /\ nextId = 1

\* the tool handlers
ToolOps == {"insert", "update", "delete", "aggregateTool", "listDatabasesTool"}

\* C28: every tool handler invocation, also when not connected, on a
\* read-only violation and when the driver call fails, ends by returning a
\* success payload or the error payload; no handler throws to the gateway.
C28_ToolsAlwaysReturnPayload ==
  (ret.op \in ToolOps) => (ret.outcome \in {"toolSuccess", "toolError"})

\* C29: a server-closed, heartbeat-failed, connection-closed or error signal
\* delivered while the phase is not Connected changes no field of the
\* connection state, and a signal that flips the phase records its own fault
\* and label; so of several racing fault signals only the first one that
\* flips the phase determines lastError and lastDisconnectReason.
C29_SignalsIdempotent ==
  [][\A c \in Clients, sig \in Signals :
       /\ (onSignal(c, sig) /\ ~isConnected)
            => UNCHANGED <<mgr, drv, nextId, calls, held, pending>>
       /\ (onSignal(c, sig) /\ isConnected /\ ~isConnected')
            => /\ connectionError' = SignalFault(sig)
               /\ disconnectReason' = SignalLabel(sig)]_vars
C29_Witness ==
  /\ ~isConnected /\ client = 1 /\ drv[1].st = "connected"
  /\ connectionError = SignalFault("connectionClosed")
  /\ disconnectReason = SignalLabel("connectionClosed")
  /\ ret = NoRet /\ \A k \in Calls : calls[k].pc = "idle"

\* C30: in connect the listeners for all four signals are attached to the new
\* driver client before its connect() is issued: every client on which
\* connect() has been issued carries the four listeners, so a signal it emits
\* while its connect() is pending is delivered to a handler.
C30_ListenersBeforeConnect ==
  \A c \in Clients :
    /\ drv[c].st # "absent" => drv[c].listeners = Signals
    /\ drv[c].st = "connecting" => \A sig \in Signals : ENABLED onSignal(c, sig)
C30_Witness ==
  /\ drv[2] = IssuedClient /\ client = 2
  /\ \E k \in Calls : calls[k] = [pc |-> "conn_wait", cli |-> 2, ro |-> TRUE,
                                  reason |-> DefaultDisconnectReason, by |-> NoTool]
  /\ drv[1].st = "closed" /\ ~isConnected

\* a connect call completes successfully in this step
ConnectCompletesOk ==
  \E k \in Calls :
    /\ calls[k].pc = "conn_wait" /\ calls'[k].pc = "idle"
    /\ ret'.op = "connect" /\ ret'.outcome = "returned"

\* a disconnect (explicit, or the implicit one of connect) completes in this step
DisconnectCompletes ==
  \E k \in Calls :
    \/ calls[k].pc = "disc_close" /\ calls'[k].pc = "idle" /\ ret'.outcome = "returned"
    \/ calls[k].pc = "conn_close" /\ calls'[k].pc = "conn_resume"

\* C31: the phase becomes Connected only by the successful completion of a
\* connect call, and leaves Connected only through the completion of a
\* disconnect or a server-closed, connection-closed or error signal;
\* getDatabase, getClient, getConnectionInfo, setReadonlyMode and the
\* heartbeat-failed handler never change the phase.
C31_PhaseEdges ==
  [][/\ (~isConnected /\ isConnected') => ConnectCompletesOk
     /\ (isConnected /\ ~isConnected')
          => \/ DisconnectCompletes
             \/ \E c \in Clients, sig \in Signals \ {"serverHeartbeatFailed"} :
                  onSignal(c, sig)
     /\ (\/ getDatabase
         \/ getClient
         \/ \E ro \in BOOLEAN : setReadonlyMode(ro)
         \/ \E c \in Clients : onSignal(c, "serverHeartbeatFailed"))
          => /\ isConnected' = isConnected
             /\ getConnectionInfo'.isConnected = getConnectionInfo.isConnected]_vars
C31_Witness ==
  /\ ret.op = "getClient" /\ ret.outcome = "returned" /\ isConnected
  /\ client = 2 /\ drv[1].st = "closed" /\ drv[2].st = "connected"
  /\ disconnectReason = SignalLabel("serverHeartbeatFailed")

\* C32: when every driver connect and close call eventually resolves or
\* rejects, every connect call and every disconnect call eventually
\* completes; a connect call completes with the phase Connected or by raising
\* an error with the phase Disconnected (a call that returns normally leaves
\* the phase Connected); and a call is pending only while the driver call it
\* awaits, a close() or connect() issued on its client, is unresolved.
C32_CallsComplete ==
  /\ \A k \in Calls : (calls[k].pc # "idle") ~> (calls[k].pc = "idle")
  /\ [][\A k \in Calls :
          (calls[k].pc \in {"conn_close", "conn_wait"} /\ calls'[k].pc = "idle")
            => \/ isConnected'
               \/ (ret'.op = "connect" /\ ret'.outcome = "threw" /\ ~isConnected')]_vars
  /\ [](\A k \in Calls :
          /\ calls[k].pc \in {"conn_close", "disc_close"}
               => drv[calls[k].cli].closeCalls >= 1
          /\ calls[k].pc = "conn_wait"
               => drv[calls[k].cli].st # "absent")
C32_Witness ==
  /\ ret.op = "connect" /\ ret.outcome = "threw" /\ ret.err = "ConnectionError"
  /\ ~isConnected /\ client = 2 /\ drv[1].st = "closed" /\ drv[2].st = "failed"
  /\ \A k \in Calls : calls[k].pc = "idle"

\* C33: under any interleaving of connect, disconnect and getter calls at
\* their await points, whenever the phase is Connected the stored driver
\* client is one whose connect() has resolved and on which close() has not
\* been called; hence a getter that returns hands out such a client.
C33_ConnectedClientIsLive ==
  isConnected
    => /\ client # 0
       /\ drv[client].st = "connected"
       /\ drv[client].closeCalls = 0

\* C34: a signal emitted by a driver client that is no longer the current one
\* (closed by disconnect, or abandoned after a fault or a failed connect)
\* never changes the state of a later connection: once a newer connect has
\* succeeded, it leaves the phase Connected and lastError and
\* lastDisconnectReason unchanged.
C34_StaleSignalIgnored ==
  [][\A c \in Clients, sig \in Signals :
       (onSignal(c, sig) /\ isConnected /\ client # 0 /\ c < client
          /\ drv[client].st = "connected")
         => UNCHANGED <<isConnected, connectionError, disconnectReason>>]_vars

\* the connect() issued on driver client c is still pending
ConnectPendingOn(c) == \E k \in Calls : calls[k].pc = "conn_wait" /\ calls[k].cli = c

\* C35: a fault signal delivered by the new driver client while its connect
\* call is still pending leaves the connection state unchanged; if that
\* connect call then resolves, the phase becomes Connected with lastError and
\* lastDisconnectReason empty, so the earlier signal leaves no trace.
C35_SignalWhileConnecting ==
  [][/\ \A c \in Clients, sig \in Signals :
          (onSignal(c, sig) /\ c = client /\ ConnectPendingOn(c))
            => UNCHANGED <<mgr, drv, nextId, calls>>
     /\ \A k \in Calls :
          (calls[k].pc = "conn_wait" /\ calls'[k].pc = "idle"
             /\ ret'.op = "connect" /\ ret'.outcome = "returned")
            => (isConnected' /\ connectionError' = Null /\ disconnectReason' = Null)]_vars

\* call k is a connect that was entered while Connected: it went through the
\* implicit disconnect and now awaits the new client's connect()
ReconnectPending(k) == calls[k].pc = "conn_wait" /\ calls[k].reason # Null

\* C36: when connect is called while Connected and the new attempt fails, the
\* previous connection is not restored: the implicit disconnect leaves the old
\* driver client closed, and when the new client's connect() fails the call
\* raises the connection error with the phase Disconnected, connectionString
\* null, connectionError the connect failure and disconnectReason the reason
\* of the implicit disconnect.
C36_FailedReconnect ==
  [][\A k \in Calls :
       /\ (calls[k].pc = "conn_close" /\ calls'[k].pc = "conn_resume")
            => /\ drv'[calls[k].cli].st = "closed"
               /\ client' # calls[k].cli
       /\ (ReconnectPending(k) /\ calls'[k].pc = "idle" /\ ret'.outcome = "threw")
            => /\ ret'.op = "connect" /\ ret'.err = "ConnectionError"
               /\ ~isConnected'
               /\ connectionString' = Null
               /\ connectionError' = ConnectFailureMessage
               /\ disconnectReason' = calls[k].reason
               /\ \A c \in Clients : c < calls[k].cli => drv'[c].st # "connected"]_vars
\* the close() issued by call k on driver client c fails in this step
CloseFails(k, c) ==
  /\ calls[k].pc \in {"disc_close", "conn_close"} /\ calls[k].cli = c
  /\ calls'[k].pc = "idle"
  /\ drv'[c].closeCalls < drv[c].closeCalls

\* C37: when the driver's close() fails during disconnect the error reaches
\* the caller and the call leaves the connection state as it was (phase,
\* stored client, connectionString, disconnectReason, connectionError): the
\* call changes nothing before its await and nothing when close() rejects.
\* Inside connect's implicit disconnect the connect call raises that error,
\* no new driver client is created and connectionError is not set.
C37_CloseFailure ==
  [][\A k \in Calls :
       /\ (FreeCall(k) /\ calls'[k].pc \in {"disc_close", "conn_close"})
            => UNCHANGED <<mgr, nextId>>
       /\ \A c \in Clients :
            CloseFails(k, c)
              => /\ ret'.outcome = "threw" /\ ret'.err = "CloseError"
                 /\ ret'.op = IF calls[k].pc = "conn_close" THEN "connect"
                                                            ELSE "disconnect"
                 /\ UNCHANGED <<client, isConnected, connectionString,
                                disconnectReason, connectionError>>
                 /\ nextId' = nextId
                 /\ \A d \in Clients : drv'[d].st = drv[d].st]_vars
C37_Witness ==
  /\ ret.op = "connect" /\ ret.outcome = "threw" /\ ret.err = "CloseError"
  /\ isConnected /\ client = 1 /\ nextId = 1 /\ drv[2] = AbsentClient
  /\ connectionString = Uri /\ connectionError = Null
  /\ drv[1].st = "connected" /\ drv[1].closeCalls = 0
\* some stage of the pipeline has $out or $merge as its first key
WritesOut(pipeline) ==
  \E i \in 1..Len(pipeline) :
    /\ Len(pipeline[i].keys) > 0
    /\ pipeline[i].keys[1] \in {"$out", "$merge"}

\* C38: the policy of a handle is fixed when getDatabase returns it. A
\* read-only handle, and every collection handle derived from it, keeps
\* rejecting blocklisted operations and $out/$merge pipelines after
\* readonlyMode has become false; a raw handle obtained while readonlyMode
\* was false is not restricted after readonlyMode has become true.
C38_HandlePolicyFixed ==
  /\ (ret.op = "call" /\ ret.recv.ro /\ ~readonlyMode
        /\ ret.prop \in BlockedAt(ret.recv.level))
       => (ret.outcome = "threw" /\ ret.err = "OperationNotAllowed")
  /\ (ret.op = "aggregate" /\ ret.recv.ro /\ ~readonlyMode
        /\ WritesOut(ret.pipeline))
       => (ret.outcome = "threw" /\ ret.err = "StageNotAllowed")
  /\ (ret.op \in {"call", "aggregate"} /\ ~ret.recv.ro /\ readonlyMode
        /\ TypeOf(ret.recv.level, ret.prop) = "function")
       => /\ ret.outcome = "returned"
          /\ ret.driver.method = ret.prop
          /\ ret.driver.pipeline = ret.pipeline
\* the first key of the first stage whose first key is $out or $merge
RECURSIVE FirstWritingKey(_)
FirstWritingKey(pipeline) ==
  IF WritesOut(<<Head(pipeline)>>) THEN Head(pipeline).keys[1]
  ELSE FirstWritingKey(Tail(pipeline))

C39_Case(r) ==
  (r.op = "aggregate" /\ r.recv.ro)
    => IF WritesOut(r.pipeline)
       THEN /\ r.outcome = "threw" /\ r.err = "StageNotAllowed"
            /\ r.name = FirstWritingKey(r.pipeline)
            /\ r.driver = NoDriverCall
       ELSE /\ r.outcome = "returned"
            /\ r.driver.method = "aggregate"
            /\ r.driver.pipeline = r.pipeline
C39_EveryInput == \A r \in HandleResults : C39_Case(r)

\* C39: the aggregation gate decides on the first key of each top-level stage
\* object only: an aggregate call on a read-only handle is rejected if and
\* only if some stage's first key is $out or $merge (and the error names that
\* key); a stage object with no keys is skipped, and a stage whose first key
\* is safe passes even when a later key of the same object is $out or $merge.
C39_GateFirstKeyOnly == C39_EveryInput /\ C39_Case(ret)
C39_Witness ==
  /\ ret.op = "aggregate" /\ ret.recv.ro /\ ret.outcome = "returned"
  /\ ret.pipeline = <<Stage(<<>>, <<>>), Stage(<<"$match", "$out">>, <<>>)>>
  /\ ret.driver.pipeline = ret.pipeline
====
